---------------------------- MODULE Spec2Model ----------------------------
(***************************************************************************)
(* A model of pvrename.py: the macro-aware CamelCase converter (to_camel), *)
(* the two-column table reader (read_conv_file) with its conversion        *)
(* driver (convert_case), the ignore-pattern file discovery (find_files,   *)
(* load_ignore_file), the rename pass (rename) and the literal replacement *)
(* it applies.                                                             *)
(*                                                                         *)
(* Python strings are modelled as sequences of one-character strings, so   *)
(* "a.b" is <<"a", ".", "b">>.                                             *)
(***************************************************************************)
EXTENDS Integers, Sequences, FiniteSets, TLC

VARIABLES
    \* ---- convert_case.to_camel, one call -------------------------------
    s,            \* the identifier being converted
    delims,       \* convert_case's delims after the "if not delims" default
    caps_delim,   \* convert_case's caps_delim, as the set of its characters
    pos,          \* index of the next character the for loop reads
    in_macro,     \* to_camel's flag
    last_delim,   \* to_camel's flag
    ret,          \* to_camel's output list
    ret_src,      \* history: for each element of ret, the index of s it came from
    camel_pc,     \* "idle" | "scan" | "done"
    \* ---- convert_case over one table file -------------------------------
    conv_file,    \* the lines of the file fn, without their line ends
    conv_camel,   \* convert_case's camel argument
    conv_delims,  \* convert_case's delims after the "if not delims" default
    conv_i,       \* index of the next line read_conv_file reads
    conv_entries, \* what read_conv_file has yielded so far
    conv_out,     \* the lines printed so far
    conv_pc,      \* "idle" | "run" | "done" | "NotImplementedError"
    \* ---- the file system and find_files ---------------------------------
    fs_kind,      \* root path -> "dir" | "missing" | "file"
    fs_ignore,    \* root path -> <<TRUE, lines>> (its .gitignore) or <<FALSE, <<>>>>
    fs_files,     \* root path -> the regular files below it, relative paths
    ignore_paths_default, \* the list object that is find_files' default ignore_paths
    ff_path,      \* find_files' path
    ignore_paths, \* find_files' local ignore_paths, once compiled
    ff_todo,      \* the files os.walk has yet to reach
    ff_yielded,   \* the paths yielded so far, in order
    ff_skipped,   \* the <<fn, pattern>> pairs reported on stderr
    ff_passes,    \* the number of find_files passes begun in this process
    ff_pc,        \* "idle" | "walk" | "done"
    \* ---- rename ----------------------------------------------------------
    ren_fn,       \* the absolute path of the table file
    ren_table,    \* the lines of the table file
    file_text,    \* file path -> the text of each file below the root
    orig_files,   \* history: file_text when rename was called
    dryrun,       \* rename's dryrun argument
    diff_exists,  \* whether the diff executable can be run
    diff_args,    \* rename's diff_args list
    replace,      \* rename's replace list
    fns,          \* the part of rename's fns list not yet looped over
    found,        \* history: the whole fns list
    reported,     \* the files of the "[dry run] Would change" lines, in order
    diff_calls,   \* the subprocess.call argument lists, with the exit codes
    ren_pc,       \* "idle" | "loop" | "done" | "ValueError" | "OSError"
    \* ---- the replacement of rename's loop body, applied twice ------------
    ap_lines,     \* the lines of a table file
    ap_replace,   \* list(read_conv_file(...)) of it
    ap_text,      \* the text of a file before the first pass
    ap_once,      \* its text after one pass
    ap_twice,     \* its text after a second pass
    ap_pc         \* "idle" | "read" | "first" | "second" | "done"

camelVars == <<s, delims, caps_delim, pos, in_macro, last_delim, ret, ret_src, camel_pc>>
convVars == <<conv_file, conv_camel, conv_delims, conv_i, conv_entries, conv_out, conv_pc>>

fsVars == <<fs_kind, fs_ignore, fs_files>>
findVars == <<ignore_paths_default, ff_path, ignore_paths, ff_todo, ff_yielded,
              ff_skipped, ff_passes, ff_pc>>

renVars == <<ren_fn, ren_table, file_text, orig_files, dryrun, diff_exists, diff_args,
             replace, fns, found, reported, diff_calls, ren_pc>>

applyVars == <<ap_lines, ap_replace, ap_text, ap_once, ap_twice, ap_pc>>

vars == <<camelVars, convVars, fsVars, findVars, renVars, applyVars>>

exceptCamel == <<convVars, fsVars, findVars, renVars, applyVars>>
exceptConv == <<camelVars, fsVars, findVars, renVars, applyVars>>
exceptFind == <<camelVars, convVars, renVars, applyVars>>
exceptRen == <<camelVars, convVars, applyVars>>
exceptApply == <<camelVars, convVars, fsVars, findVars, renVars>>

-----------------------------------------------------------------------------
(* The value of each component's variables while another component runs *)

IdleCamel ==
    /\ s = <<>>
    /\ delims = {}
    /\ caps_delim = {}
    /\ pos = 1
    /\ in_macro = FALSE
    /\ last_delim = FALSE
    /\ ret = <<>>
    /\ ret_src = <<>>
    /\ camel_pc = "idle"

IdleConv ==
    /\ conv_file = <<>>
    /\ conv_camel = TRUE
    /\ conv_delims = {}
    /\ conv_i = 1
    /\ conv_entries = <<>>
    /\ conv_out = <<>>
    /\ conv_pc = "idle"

IdleFs ==
    /\ fs_kind = <<>>
    /\ fs_ignore = <<>>
    /\ fs_files = <<>>

IdleFind ==
    /\ ignore_paths_default = <<>>
    /\ ff_path = <<>>
    /\ ignore_paths = <<>>
    /\ ff_todo = {}
    /\ ff_yielded = <<>>
    /\ ff_skipped = {}
    /\ ff_passes = 0
    /\ ff_pc = "idle"

IdleRen ==
    /\ ren_fn = <<>>
    /\ ren_table = <<>>
    /\ file_text = <<>>
    /\ orig_files = <<>>
    /\ dryrun = TRUE
    /\ diff_exists = TRUE
    /\ diff_args = <<>>
    /\ replace = <<>>
    /\ fns = <<>>
    /\ found = <<>>
    /\ reported = <<>>
    /\ diff_calls = <<>>
    /\ ren_pc = "idle"

IdleApply ==
    /\ ap_lines = <<>>
    /\ ap_replace = <<>>
    /\ ap_text = <<>>
    /\ ap_once = <<>>
    /\ ap_twice = <<>>
    /\ ap_pc = "idle"

-----------------------------------------------------------------------------
(* Bounds *)

MaxIdLen == 4
MaxLineLen == 4
MaxGlobLen == 2
MaxIgnoreLines == 1
MaxPasses == 2
MaxTableLines == 2
MaxTextLen == 3
MaxEntries == 2

-----------------------------------------------------------------------------
(* Strings *)

\* All sequences over alphabet A of length at most n.
StringsUpTo(A, n) == UNION {[1..k -> A] : k \in 0..n}

UPPER == <<"A","B","C","D","E","F","G","H","I","J","K","L","M",
           "N","O","P","Q","R","S","T","U","V","W","X","Y","Z">>
LOWER == <<"a","b","c","d","e","f","g","h","i","j","k","l","m",
           "n","o","p","q","r","s","t","u","v","w","x","y","z">>

\* str.upper() and str.lower() of one character.
upper(c) == IF \E i \in 1..Len(LOWER) : LOWER[i] = c
            THEN UPPER[CHOOSE i \in 1..Len(LOWER) : LOWER[i] = c]
            ELSE c
lower(c) == IF \E i \in 1..Len(UPPER) : UPPER[i] = c
            THEN LOWER[CHOOSE i \in 1..Len(UPPER) : UPPER[i] = c]
            ELSE c

RECURSIVE Interleave(_, _)
Interleave(t, new) ==
    IF t = <<>> THEN new ELSE new \o <<Head(t)>> \o Interleave(Tail(t), new)

\* A str.replace that stops after the first occurrence, as
\* str.replace(old, new, 1) does.
str_replace_first(t, old, new) ==
    IF old = <<>> THEN new \o t
    ELSE IF \E i \in 1..(Len(t) - Len(old) + 1) : SubSeq(t, i, i + Len(old) - 1) = old
    THEN LET n == CHOOSE i \in 1..(Len(t) - Len(old) + 1) :
                     /\ SubSeq(t, i, i + Len(old) - 1) = old
                     /\ \A h \in 1..(i - 1) : SubSeq(t, h, h + Len(old) - 1) # old
         IN SubSeq(t, 1, n - 1) \o new \o SubSeq(t, n + Len(old), Len(t))
    ELSE t

\* str.replace(old, new): every non-overlapping occurrence of old, found
\* scanning from the left, is replaced; an empty old matches before every
\* character and at the end.
RECURSIVE str_replace(_, _, _)
str_replace(t, old, new) ==
    IF old = <<>> THEN Interleave(t, new)
    ELSE IF Len(t) < Len(old) THEN t
    ELSE IF SubSeq(t, 1, Len(old)) = old
    THEN new \o str_replace(SubSeq(t, Len(old) + 1, Len(t)), old, new)
    ELSE <<Head(t)>> \o str_replace(Tail(t), old, new)

Range(f) == {f[i] : i \in DOMAIN f}

-----------------------------------------------------------------------------
(* convert_case.to_camel *)

DEF_CAPS_DELIM == {":", ")"}
DEF_DELIM == {"_"}

\* A to_camel whose delimiter test comes before the in_macro test, and which
\* lower-cases what it copies inside a macro.
to_camel_step_macro_blind(st, c, dl, cd) ==
    IF c \in dl
    THEN [st EXCEPT !.last_delim = TRUE]
    ELSE IF st.in_macro
    THEN [in_macro   |-> (c # ")"),
          last_delim |-> IF c = ")" /\ c \in cd THEN TRUE ELSE st.last_delim,
          ret        |-> Append(st.ret, lower(c))]
    ELSE IF c = "$"
    THEN [st EXCEPT !.in_macro = TRUE, !.ret = Append(st.ret, c)]
    ELSE IF c \in cd
    THEN [st EXCEPT !.last_delim = TRUE, !.ret = Append(st.ret, c)]
    ELSE IF st.last_delim
    THEN [st EXCEPT !.last_delim = FALSE, !.ret = Append(st.ret, upper(c))]
    ELSE [st EXCEPT !.ret = Append(st.ret, lower(c))]

\* One iteration of to_camel's "for c in s" loop: the state after reading c.
to_camel_step(st, c, dl, cd) ==
    IF st.in_macro
    THEN [in_macro   |-> (c # ")"),
          last_delim |-> IF c = ")" /\ c \in cd THEN TRUE ELSE st.last_delim,
          ret        |-> Append(st.ret, c)]
    ELSE IF c = "$"
    THEN [st EXCEPT !.in_macro = TRUE, !.ret = Append(st.ret, c)]
    ELSE IF c \in dl
    THEN [st EXCEPT !.last_delim = TRUE]
    ELSE IF c \in cd
    THEN [st EXCEPT !.last_delim = TRUE, !.ret = Append(st.ret, c)]
    ELSE IF st.last_delim
    THEN [st EXCEPT !.last_delim = FALSE, !.ret = Append(st.ret, upper(c))]
    ELSE [st EXCEPT !.ret = Append(st.ret, lower(c))]

RECURSIVE to_camel_from(_, _, _, _, _)
to_camel_from(st, str, i, dl, cd) ==
    IF i > Len(str) THEN st.ret
    ELSE to_camel_from(to_camel_step(st, str[i], dl, cd), str, i + 1, dl, cd)

\* to_camel(s) under the enclosing convert_case's delims and caps_delim.
to_camel(str, dl, cd) ==
    to_camel_from([in_macro |-> FALSE, last_delim |-> FALSE, ret |-> <<>>],
                  str, 1, dl, cd)

\* convert_case's "if not delims: delims = ['_', ]".
EffectiveDelims(d) == IF d = {} THEN DEF_DELIM ELSE d

CamelAlphabet == {"A", "b", "_", ":", "$", ")"}
DelimArgs == {{}, {"_", ")"}, {"$", "b"}}
CapsDelimArgs == {DEF_CAPS_DELIM, {":"}}

CAP_MEAS_INPUT == <<"C","A","P","_","M","E","A","S","_","I","N","P","U","T">>
CapMeasInput == <<"C","a","p","M","e","a","s","I","n","p","u","t">>
VAL_MACRO == <<"V","A","L","_","$","(","M","A","C","R","O",":","C",")">>
ValMACRO == <<"V","a","l","$","(","M","A","C","R","O",":","C",")">>

CamelInputs == StringsUpTo(CamelAlphabet, MaxIdLen) \cup {CAP_MEAS_INPUT, VAL_MACRO}

CamelCall ==
    /\ s \in CamelInputs
    /\ \E d \in DelimArgs : delims = EffectiveDelims(d)
    /\ caps_delim \in CapsDelimArgs
    /\ pos = 1
    /\ in_macro = FALSE
    /\ last_delim = FALSE
    /\ ret = <<>>
    /\ ret_src = <<>>
    /\ camel_pc = "scan"

\* One iteration of "for c in s".
CamelChar ==
    /\ camel_pc = "scan"
    /\ pos <= Len(s)
    /\ LET st == to_camel_step([in_macro |-> in_macro, last_delim |-> last_delim,
                                ret |-> ret], s[pos], delims, caps_delim)
       IN /\ in_macro' = st.in_macro
          /\ last_delim' = st.last_delim
          /\ ret' = st.ret
          /\ ret_src' = IF Len(st.ret) > Len(ret) THEN Append(ret_src, pos) ELSE ret_src
    /\ pos' = pos + 1
    /\ UNCHANGED <<s, delims, caps_delim, camel_pc>>
    /\ UNCHANGED exceptCamel

\* "return ''.join(ret)".
CamelReturn ==
    /\ camel_pc = "scan"
    /\ pos > Len(s)
    /\ camel_pc' = "done"
    /\ UNCHANGED <<s, delims, caps_delim, pos, in_macro, last_delim, ret, ret_src>>
    /\ UNCHANGED exceptCamel

NextCamel == CamelChar \/ CamelReturn

InitCamel == CamelCall /\ IdleConv /\ IdleFs /\ IdleFind /\ IdleRen /\ IdleApply

SpecCamel == InitCamel /\ [][NextCamel]_vars

-----------------------------------------------------------------------------
(* Properties of to_camel *)

IsLetter(c) == upper(c) # lower(c)

\* Index i of str lies in a macro reference span: some "$" at or before i
\* has no ")" between it and i.
InSpan(str, i) ==
    \E j \in 1..i : str[j] = "$" /\ \A k \in j..(i - 1) : str[k] # ")"

\* The CamelCase reading of a delimiter-separated identifier: "_" is elided,
\* the first letter of every word is upper case, the others lower case.
RECURSIVE CamelCaseOf(_, _)
CamelCaseOf(str, i) ==
    IF i > Len(str) THEN <<>>
    ELSE IF str[i] = "_" THEN CamelCaseOf(str, i + 1)
    ELSE <<IF i = 1 \/ str[i - 1] = "_" THEN upper(str[i]) ELSE lower(str[i])>>
         \o CamelCaseOf(str, i + 1)

IsIdentifier(str) == \A i \in 1..Len(str) : IsLetter(str[i]) \/ str[i] = "_"

\* C4: with delimiters {"_"} and the default caps-delimiters, to_camel gives
\* the CamelCase form in which every word, the first included, starts with an
\* upper-case letter: CAP_MEAS_INPUT gives CapMeasInput and VAL_$(MACRO:C)
\* gives Val$(MACRO:C).
C4_CamelCaseFirstWordUpper ==
    (camel_pc = "done" /\ delims = DEF_DELIM /\ caps_delim = DEF_CAPS_DELIM) =>
        /\ IsIdentifier(s) => ret = CamelCaseOf(s, 1)
        /\ s = CAP_MEAS_INPUT => ret = CapMeasInput
        /\ s = VAL_MACRO => ret = ValMACRO

\* C5: every character of a macro reference span read so far has been copied
\* to the output unchanged, exactly once and in input order, whatever the
\* delimiter sets are.
C5_MacroSpansCopied ==
    /\ Len(ret_src) = Len(ret)
    /\ \A k \in 1..(Len(ret_src) - 1) : ret_src[k] < ret_src[k + 1]
    /\ \A i \in 1..(pos - 1) :
          InSpan(s, i) =>
              /\ Cardinality({k \in 1..Len(ret) : ret_src[k] = i}) = 1
              /\ \A k \in 1..Len(ret) : ret_src[k] = i => ret[k] = s[i]

\* A finished conversion whose macro span holds a delimiter character and an
\* upper-case letter.
C5_Witness ==
    /\ camel_pc = "done"
    /\ \E i \in 1..Len(s) : InSpan(s, i) /\ s[i] \in delims
    /\ \E i \in 1..Len(s) : InSpan(s, i) /\ IsLetter(s[i]) /\ s[i] = upper(s[i])
    /\ \E i \in 1..Len(s) : ~InSpan(s, i)

-----------------------------------------------------------------------------
(* read_conv_file and the convert_case driver *)

\* The characters str.strip() removes and \s matches, among those modelled.
WHITESPACE == {" ", "\t"}

RECURSIVE lstrip(_)
lstrip(str) ==
    IF str # <<>> /\ Head(str) \in WHITESPACE THEN lstrip(Tail(str)) ELSE str

RECURSIVE rstrip(_)
rstrip(str) ==
    IF str # <<>> /\ str[Len(str)] \in WHITESPACE
    THEN rstrip(SubSeq(str, 1, Len(str) - 1))
    ELSE str

\* str.strip()
strip(str) == rstrip(lstrip(str))

Max(S) == CHOOSE x \in S : \A y \in S : y <= x

\* The ways '^(.*)\s+(.*)$' matches line: <<k, j>> where group 1 is
\* line[1..k], \s+ is line[k+1..j] and group 2 is the rest.
LineReMatches(line) ==
    {m \in (0..Len(line)) \X (1..Len(line)) :
        /\ m[1] < m[2]
        /\ \A i \in (m[1] + 1)..m[2] : line[i] \in WHITESPACE}

\* m.groups() of line_re.match(line): both quantifiers of group 1 and \s+ are
\* greedy, so the match found is that with the longest group 1 and, for it,
\* the longest \s+.
line_re_groups(line) ==
    LET ms == LineReMatches(line)
        k  == Max({m[1] : m \in ms})
        j  == Max({m[2] : m \in {n \in ms : n[1] = k}})
    IN <<SubSeq(line, 1, k), SubSeq(line, j + 1, Len(line))>>

\* What read_conv_file yields for one line of the file: <<>> is the blank
\* sentinel (), otherwise <<from_, to>>.
read_conv_line(raw) ==
    LET line == strip(raw)
    IN IF line = <<>> THEN <<>>
       ELSE IF LineReMatches(line) # {} THEN line_re_groups(line)
       ELSE <<line, line>>

\* list(read_conv_file(fn)) for a file of these lines.
read_conv_file(lines) == [i \in 1..Len(lines) |-> read_conv_line(lines[i])]

ConvAlphabet == {"A", "_", " ", "\t"}
FOO_BAR == <<"F","O","O","_","B","A","R">>
MyExplicit == <<"M","y","E","x","p","l","i","c","i","t">>
ExampleConvFile == << FOO_BAR, <<>>, FOO_BAR \o <<" ", " ">> \o MyExplicit >>

ConvFiles ==
    {<<l>> : l \in StringsUpTo(ConvAlphabet, MaxLineLen)} \cup {<<>>, ExampleConvFile}

ConvCall ==
    /\ conv_file \in ConvFiles
    /\ conv_camel \in BOOLEAN
    /\ \E d \in {{}, {"_", "A"}} : conv_delims = EffectiveDelims(d)
    /\ conv_i = 1
    /\ conv_entries = <<>>
    /\ conv_out = <<>>
    /\ conv_pc = "run"

ConvLine == read_conv_line(conv_file[conv_i])

\* "if not line: print()"
ConvBlank ==
    /\ conv_pc = "run" /\ conv_i <= Len(conv_file)
    /\ ConvLine = <<>>
    /\ conv_entries' = Append(conv_entries, ConvLine)
    /\ conv_out' = Append(conv_out, <<>>)
    /\ conv_i' = conv_i + 1
    /\ UNCHANGED <<conv_file, conv_camel, conv_delims, conv_pc>>
    /\ UNCHANGED exceptConv

\* from_ != to: the pair is printed as it is.
ConvExplicit ==
    /\ conv_pc = "run" /\ conv_i <= Len(conv_file)
    /\ ConvLine # <<>> /\ ConvLine[1] # ConvLine[2]
    /\ conv_entries' = Append(conv_entries, ConvLine)
    /\ conv_out' = Append(conv_out, ConvLine[1] \o <<"\t">> \o ConvLine[2])
    /\ conv_i' = conv_i + 1
    /\ UNCHANGED <<conv_file, conv_camel, conv_delims, conv_pc>>
    /\ UNCHANGED exceptConv

\* from_ == to and camel: to = to_camel(to).
ConvCamel ==
    /\ conv_pc = "run" /\ conv_i <= Len(conv_file)
    /\ ConvLine # <<>> /\ ConvLine[1] = ConvLine[2]
    /\ conv_camel
    /\ conv_entries' = Append(conv_entries, ConvLine)
    /\ conv_out' = Append(conv_out, ConvLine[1] \o <<"\t">>
                              \o to_camel(ConvLine[2], conv_delims, DEF_CAPS_DELIM))
    /\ conv_i' = conv_i + 1
    /\ UNCHANGED <<conv_file, conv_camel, conv_delims, conv_pc>>
    /\ UNCHANGED exceptConv

\* from_ == to and not camel: to_caps raises NotImplementedError.
ConvCaps ==
    /\ conv_pc = "run" /\ conv_i <= Len(conv_file)
    /\ ConvLine # <<>> /\ ConvLine[1] = ConvLine[2]
    /\ ~conv_camel
    /\ conv_entries' = Append(conv_entries, ConvLine)
    /\ conv_pc' = "NotImplementedError"
    /\ UNCHANGED <<conv_file, conv_camel, conv_delims, conv_i, conv_out>>
    /\ UNCHANGED exceptConv

\* read_conv_file is exhausted.
ConvEnd ==
    /\ conv_pc = "run" /\ conv_i > Len(conv_file)
    /\ conv_pc' = "done"
    /\ UNCHANGED <<conv_file, conv_camel, conv_delims, conv_i, conv_entries, conv_out>>
    /\ UNCHANGED exceptConv

NextConv == ConvBlank \/ ConvExplicit \/ ConvCamel \/ ConvCaps \/ ConvEnd

InitConv == ConvCall /\ IdleCamel /\ IdleFs /\ IdleFind /\ IdleRen /\ IdleApply

SpecConv == InitConv /\ [][NextConv]_vars

-----------------------------------------------------------------------------
(* Properties of read_conv_file *)

\* str.split(): the maximal runs of non-whitespace characters.
RECURSIVE Tokens(_)
Tokens(str) ==
    LET t == lstrip(str)
    IN IF t = <<>> THEN <<>>
       ELSE LET n == IF \E i \in 1..Len(t) : t[i] \in WHITESPACE
                     THEN (CHOOSE i \in 1..Len(t) :
                              /\ t[i] \in WHITESPACE
                              /\ \A h \in 1..(i - 1) : t[h] \notin WHITESPACE) - 1
                     ELSE Len(t)
            IN <<SubSeq(t, 1, n)>> \o Tokens(SubSeq(t, n + 1, Len(t)))

\* C3: a line of two tokens separated by a run of spaces or tabs yields
\* (first token, second token); a line of one token yields (token, token);
\* and the driver prints a two-token line as first<TAB>second.
C3_TwoTokensSplitAtRun ==
    \A i \in 1..Len(conv_entries) :
        LET toks == Tokens(conv_file[i])
        IN /\ Len(toks) = 2 => conv_entries[i] = <<toks[1], toks[2]>>
           /\ Len(toks) = 1 => conv_entries[i] = <<toks[1], toks[1]>>
           /\ (Len(toks) = 2 /\ toks[1] # toks[2] /\ i <= Len(conv_out)) =>
                  conv_out[i] = toks[1] \o <<"\t">> \o toks[2]

-----------------------------------------------------------------------------
(* Regular expressions, as far as the ignore patterns use them: literal    *)
(* characters, \c, ., [...], a following *, and $.                         *)

\* The number of pattern characters the atom at p[i] takes.
AtomWidth(p, i) ==
    IF p[i] = "\\" THEN 2
    ELSE IF p[i] = "["
    THEN (CHOOSE k \in (i + 1)..Len(p) :
             p[k] = "]" /\ \A h \in (i + 1)..(k - 1) : p[h] # "]") - i + 1
    ELSE 1

\* Whether the atom at p[i] matches the character c.
AtomMatches(p, i, c) ==
    IF p[i] = "\\" THEN c = p[i + 1]
    ELSE IF p[i] = "[" THEN \E k \in (i + 1)..(i + AtomWidth(p, i) - 2) : c = p[k]
    ELSE IF p[i] = "." THEN c # "\n"
    ELSE c = p[i]

\* Whether p[i..] matches t starting at t[j].
RECURSIVE MatchHere(_, _, _, _)
MatchHere(p, i, t, j) ==
    IF i > Len(p) THEN TRUE
    ELSE IF p[i] = "$" THEN j = Len(t) + 1 /\ MatchHere(p, i + 1, t, j)
    ELSE LET w == AtomWidth(p, i)
         IN IF i + w <= Len(p) /\ p[i + w] = "*"
            THEN \E k \in j..(Len(t) + 1) :
                    /\ \A h \in j..(k - 1) : AtomMatches(p, i, t[h])
                    /\ MatchHere(p, i + w + 1, t, k)
            ELSE /\ j <= Len(t)
                 /\ AtomMatches(p, i, t[j])
                 /\ MatchHere(p, i + w, t, j + 1)

\* re.compile(p).search(t) is not None
re_search(p, t) == \E j \in 1..(Len(t) + 1) : MatchHere(p, 1, t, j)

-----------------------------------------------------------------------------
(* load_ignore_file and find_files *)

\* The pattern load_ignore_file appends for one line it keeps.
ignore_pattern(line) ==
    LET a == str_replace(line, <<".">>, <<"\\", ".">>)
        b == str_replace(a, <<"*">>, <<".", "*">>)
    IN b \o <<"$">>

\* load_ignore_file(fn) for a file of these lines.
RECURSIVE load_ignore_file(_)
load_ignore_file(lines) ==
    IF lines = <<>> THEN <<>>
    ELSE LET line == strip(Head(lines))
         IN IF line = <<>> \/ Head(line) = "#"
            THEN load_ignore_file(Tail(lines))
            ELSE <<ignore_pattern(line)>> \o load_ignore_file(Tail(lines))

\* The default value of find_files' ignore_paths when the module is loaded.
DEFAULT_IGNORE_PATHS ==
    << <<"/", "\\", ".", "g", "i", "t", "/">>,
       <<"/", "\\", ".", "s", "v", "n", "/">>,
       <<"\\", "/", "O", "\\", ".", ".", "*", "\\", "/">>,
       <<"\\", ".", "s", "w", "[", "o", "p", "]", "$">>,
       <<"\\", "/", "d", "b", "\\", "/">> >>

GIT_IGNORE == <<".", "g", "i", "t", "i", "g", "n", "o", "r", "e">>

\* os.path.join(a, b) for a relative b.
path_join(a, b) == a \o <<"/">> \o b

\* os.path.exists(os.path.join(path, git_ignore))
ignore_exists(path) == fs_kind[path] = "dir" /\ fs_ignore[path][1]

\* The default list after find_files(path)'s "ignore_paths.extend(...)".
ignore_paths_extended(path) ==
    IF ignore_exists(path)
    THEN ignore_paths_default \o load_ignore_file(fs_ignore[path][2])
    ELSE ignore_paths_default

\* Every os.path.join(root, fn) that os.walk(path) leads to. os.walk swallows
\* the error of listing a path that is missing or no directory (its onerror
\* is None) and yields nothing.
walk(path) ==
    IF fs_kind[path] = "dir"
    THEN {path_join(path, f) :
             f \in fs_files[path] \cup (IF fs_ignore[path][1] THEN {GIT_IGNORE} ELSE {})}
    ELSE {}

\* The first pattern of the compiled list that fn matches, if any.
Matching(fn, compiled) == {i \in 1..Len(compiled) : re_search(compiled[i], fn)}

RootA == <<"A">>
RootB == <<"B">>
Roots == {RootA, RootB}

IgnoreAlphabet == {"a", ".", "*", "$", "#", " "}
FileNames == { <<"a">>, <<"$", "a">>, <<"a", ".", "a">>, <<"d", "b", "/", "a">> }

IgnoreFiles ==
    {<<FALSE, <<>>>>} \cup
    {<<TRUE, ls>> : ls \in StringsUpTo(StringsUpTo(IgnoreAlphabet, MaxGlobLen),
                                        MaxIgnoreLines)}

\* Root A is any of: missing, a regular file, a directory with or without an
\* ignore file. Root B is a directory without one.
FsInit ==
    /\ \E k \in {"dir", "missing", "file"} :
          fs_kind = (RootA :> k) @@ (RootB :> "dir")
    /\ \E ig \in IgnoreFiles :
          /\ (fs_kind[RootA] # "dir" => ig = <<FALSE, <<>>>>)
          /\ fs_ignore = (RootA :> ig) @@ (RootB :> <<FALSE, <<>>>>)
    /\ fs_files = (RootA :> (IF fs_kind[RootA] = "dir" THEN FileNames ELSE {}))
                  @@ (RootB :> FileNames)

FindIdle ==
    /\ ignore_paths_default = DEFAULT_IGNORE_PATHS
    /\ ff_path = RootA
    /\ ignore_paths = <<>>
    /\ ff_todo = {}
    /\ ff_yielded = <<>>
    /\ ff_skipped = {}
    /\ ff_passes = 0
    /\ ff_pc = "idle"

\* find_files(path) up to the start of the walk: the ignore file is loaded
\* into the list ignore_paths names, which is the default list itself, and
\* the patterns are compiled.
FindBegin(path) ==
    /\ ff_pc \in {"idle", "done"}
    /\ ff_passes < MaxPasses
    /\ ff_passes' = ff_passes + 1
    /\ ff_path' = path
    /\ ignore_paths_default' = ignore_paths_extended(path)
    /\ ignore_paths' = ignore_paths_extended(path)
    /\ ff_todo' = walk(path)
    /\ ff_yielded' = <<>>
    /\ ff_skipped' = {}
    /\ ff_pc' = "walk"
    /\ UNCHANGED fsVars
    /\ UNCHANGED exceptFind

\* A file that some ignore pattern matches: reported and skipped.
FindSkip ==
    /\ ff_pc = "walk"
    /\ \E fn \in ff_todo :
          /\ Matching(fn, ignore_paths) # {}
          /\ ff_skipped' = ff_skipped \cup
                {<<fn, ignore_paths[CHOOSE i \in Matching(fn, ignore_paths) :
                                       \A h \in Matching(fn, ignore_paths) : i <= h]>>}
          /\ ff_todo' = ff_todo \ {fn}
    /\ UNCHANGED <<ignore_paths_default, ff_path, ignore_paths, ff_yielded, ff_passes, ff_pc>>
    /\ UNCHANGED fsVars
    /\ UNCHANGED exceptFind

\* A file that no ignore pattern matches: yielded.
FindYield ==
    /\ ff_pc = "walk"
    /\ \E fn \in ff_todo :
          /\ Matching(fn, ignore_paths) = {}
          /\ ff_yielded' = Append(ff_yielded, fn)
          /\ ff_todo' = ff_todo \ {fn}
    /\ UNCHANGED <<ignore_paths_default, ff_path, ignore_paths, ff_skipped, ff_passes, ff_pc>>
    /\ UNCHANGED fsVars
    /\ UNCHANGED exceptFind

\* os.walk is exhausted: the generator returns.
FindEnd ==
    /\ ff_pc = "walk"
    /\ ff_todo = {}
    /\ ff_pc' = "done"
    /\ UNCHANGED <<ignore_paths_default, ff_path, ignore_paths, ff_todo, ff_yielded,
                   ff_skipped, ff_passes>>
    /\ UNCHANGED fsVars
    /\ UNCHANGED exceptFind

FindCall == \E path \in Roots : FindBegin(path)

NextFind == FindCall \/ FindSkip \/ FindYield \/ FindEnd

InitFind == FsInit /\ FindIdle /\ IdleCamel /\ IdleConv /\ IdleRen /\ IdleApply

SpecFind == InitFind /\ [][NextFind]_vars

-----------------------------------------------------------------------------
(* Properties of find_files *)

\* t matches the glob g as a whole: "*" is any sequence of characters and
\* every other character is itself.
RECURSIVE GlobMatch(_, _)
GlobMatch(g, t) ==
    IF g = <<>> THEN t = <<>>
    ELSE IF Head(g) = "*"
    THEN \E k \in 0..Len(t) : GlobMatch(Tail(g), SubSeq(t, k + 1, Len(t)))
    ELSE t # <<>> /\ Head(t) = Head(g) /\ GlobMatch(Tail(g), Tail(t))

EndsWithGlob(p, g) == \E k \in 1..(Len(p) + 1) : GlobMatch(g, SubSeq(p, k, Len(p)))

\* The lines of path's ignore file that are neither blank nor comments.
GlobLines(path) ==
    IF ignore_exists(path)
    THEN {strip(l) : l \in Range(fs_ignore[path][2])}
             \ ({<<>>} \cup {g \in {strip(l) : l \in Range(fs_ignore[path][2])} :
                                 g # <<>> /\ Head(g) = "#"})
    ELSE {}

\* C7: a pass over a root that is missing or no directory never completes
\* normally (with an empty sequence of paths); it fails with an I/O error.
C7_BadRootFails == ~(ff_pc = "done" /\ fs_kind[ff_path] # "dir")

\* C8: every path under the root that ends with a line of the ignore file,
\* read as a glob, is excluded from what find_files yields.
C8_GlobSuffixExcluded ==
    ff_pc = "done" =>
        \A g \in GlobLines(ff_path) : \A fn \in walk(ff_path) :
            EndsWithGlob(fn, g) => fn \notin Range(ff_yielded)

\* C10: the rule set a default-argument pass over root R uses is the fixed
\* default patterns plus the patterns of R's own ignore file, and only those
\* patterns exclude files, whatever passes came before.
C10_RulesOfThisRootOnly ==
    ff_pc \in {"walk", "done"} =>
        LET own == Range(DEFAULT_IGNORE_PATHS) \cup
                   (IF ignore_exists(ff_path)
                    THEN Range(load_ignore_file(fs_ignore[ff_path][2])) ELSE {})
        IN /\ Range(ignore_paths) = own
           /\ \A sk \in ff_skipped : sk[2] \in own

-----------------------------------------------------------------------------
(* rename *)

\* "for from_, to in replace: text = text.replace(from_, to)" over entries
\* that are all pairs.
RECURSIVE apply_replace(_, _)
apply_replace(entries, text) ==
    IF entries = <<>> THEN text
    ELSE apply_replace(Tail(entries), str_replace(text, Head(entries)[1], Head(entries)[2]))

\* The text of a file made of these lines, and file.readlines() of a text
\* (each line without its line end).
RECURSIVE text_of(_)
text_of(lines) ==
    IF lines = <<>> THEN <<>> ELSE Head(lines) \o <<"\n">> \o text_of(Tail(lines))

RECURSIVE lines_of(_)
lines_of(text) ==
    IF text = <<>> THEN <<>>
    ELSE IF \E i \in 1..Len(text) : text[i] = "\n"
    THEN LET n == CHOOSE i \in 1..Len(text) :
                     text[i] = "\n" /\ \A h \in 1..(i - 1) : text[h] # "\n"
         IN <<SubSeq(text, 1, n - 1)>> \o lines_of(SubSeq(text, n + 1, Len(text)))
    ELSE <<text>>

\* "while '' in diff_args: diff_args.remove('')"
RECURSIVE strip_empty(_)
strip_empty(args) ==
    IF args = <<>> THEN <<>>
    ELSE IF Head(args) = "" THEN strip_empty(Tail(args))
    ELSE <<Head(args)>> \o strip_empty(Tail(args))

\* The orders in which a walk can list the set S.
Orders(S) ==
    {sq \in [1..Cardinality(S) -> S] : \A i, j \in 1..Cardinality(S) : sq[i] = sq[j] => i = j}

\* list(find_files(path)) for each order of the walk.
find_files_lists(path) ==
    Orders({fn \in walk(path) : Matching(fn, ignore_paths_extended(path)) = {}})

TableLines == { <<>>, <<"a", " ", "b">>, <<"b", " ", "c">>, <<"c">> }
RenTexts == { <<"a">>, <<"b", "a">>, <<"c">> }
TableName == <<"t">>
FileA == <<"a">>
FileB == <<"b">>
FileDb == <<"d", "b", "/", "a">>
OutsideTable == <<"/", "t">>

\* Root A is a directory holding the files a, b and db/a, with or without an
\* ignore file that names b, and with or without the table file itself.
RenameCall ==
    /\ ren_table \in StringsUpTo(TableLines, MaxTableLines)
    /\ ren_fn \in {path_join(RootA, TableName), OutsideTable}
    /\ fs_kind = (RootA :> "dir") @@ (RootB :> "dir")
    /\ \E ig \in {<<FALSE, <<>>>>, <<TRUE, <<FileB>>>>} :
          fs_ignore = (RootA :> ig) @@ (RootB :> <<FALSE, <<>>>>)
    /\ fs_files = (RootA :> ({FileA, FileB, FileDb} \cup
                             (IF ren_fn = OutsideTable THEN {} ELSE {TableName})))
                  @@ (RootB :> {})
    /\ \E ta, tb \in RenTexts :
          file_text = [fn \in walk(RootA) |->
                          IF fn = path_join(RootA, FileA) THEN ta
                          ELSE IF fn = path_join(RootA, FileB) THEN tb
                          ELSE IF fn = path_join(RootA, GIT_IGNORE)
                               THEN text_of(fs_ignore[RootA][2])
                          ELSE IF fn = ren_fn THEN text_of(ren_table)
                          ELSE <<"a">>]
    /\ orig_files = file_text
    /\ dryrun \in BOOLEAN
    /\ diff_exists \in BOOLEAN
    /\ diff_args \in {<<"-y">>, <<"", "-y">>}
    /\ replace = <<>>
    /\ fns = <<>>
    /\ found = <<>>
    /\ reported = <<>>
    /\ diff_calls = <<>>
    /\ ren_pc = "idle"

\* rename up to its file loop: the table is read, the empty diff arguments
\* are removed and the files are discovered (find_files extends its default
\* list as in every pass).
RenameBegin ==
    /\ ren_pc = "idle"
    /\ replace' = read_conv_file(ren_table)
    /\ diff_args' = strip_empty(diff_args)
    /\ \E l \in find_files_lists(RootA) : fns' = l /\ found' = l
    /\ ignore_paths_default' = ignore_paths_extended(RootA)
    /\ ff_passes' = ff_passes + 1
    /\ ren_pc' = "loop"
    /\ UNCHANGED <<ren_fn, ren_table, file_text, orig_files, dryrun, diff_exists,
                   reported, diff_calls>>
    /\ UNCHANGED <<ff_path, ignore_paths, ff_todo, ff_yielded, ff_skipped, ff_pc>>
    /\ UNCHANGED fsVars
    /\ UNCHANGED exceptRen

RenFile == Head(fns)
RenNewText == apply_replace(replace, file_text[RenFile])
HasBlank(entries) == \E i \in 1..Len(entries) : entries[i] = <<>>

\* "if os.path.abspath(fn) == ren_fn: continue"
RenameSkipTable ==
    /\ ren_pc = "loop" /\ fns # <<>>
    /\ RenFile = ren_fn
    /\ fns' = Tail(fns)
    /\ UNCHANGED <<ren_fn, ren_table, file_text, orig_files, dryrun, diff_exists, diff_args,
                   replace, found, reported, diff_calls, ren_pc>>
    /\ UNCHANGED <<fsVars, findVars>>
    /\ UNCHANGED exceptRen

\* "for from_, to in replace" reaches a () entry: unpacking it raises
\* ValueError, which nothing catches.
RenameUnpackError ==
    /\ ren_pc = "loop" /\ fns # <<>>
    /\ RenFile # ren_fn
    /\ HasBlank(replace)
    /\ ren_pc' = "ValueError"
    /\ UNCHANGED <<ren_fn, ren_table, file_text, orig_files, dryrun, diff_exists, diff_args,
                   replace, fns, found, reported, diff_calls>>
    /\ UNCHANGED <<fsVars, findVars>>
    /\ UNCHANGED exceptRen

\* text == orig_text: nothing is printed or written.
RenameUnchanged ==
    /\ ren_pc = "loop" /\ fns # <<>>
    /\ RenFile # ren_fn
    /\ ~HasBlank(replace)
    /\ RenNewText = file_text[RenFile]
    /\ fns' = Tail(fns)
    /\ UNCHANGED <<ren_fn, ren_table, file_text, orig_files, dryrun, diff_exists, diff_args,
                   replace, found, reported, diff_calls, ren_pc>>
    /\ UNCHANGED <<fsVars, findVars>>
    /\ UNCHANGED exceptRen

\* Dry run of a changed file: the notice is printed, the text goes to a
\* scratch file and diff runs; its exit code is dropped.
RenameDryRunDiff ==
    /\ ren_pc = "loop" /\ fns # <<>>
    /\ RenFile # ren_fn
    /\ ~HasBlank(replace)
    /\ RenNewText # file_text[RenFile]
    /\ dryrun /\ diff_exists
    /\ reported' = Append(reported, RenFile)
    /\ \E rc \in {0, 1} :
          diff_calls' = Append(diff_calls, <<RenFile, RenNewText, diff_args, rc>>)
    /\ fns' = Tail(fns)
    /\ UNCHANGED <<ren_fn, ren_table, file_text, orig_files, dryrun, diff_exists, diff_args,
                   replace, found, ren_pc>>
    /\ UNCHANGED <<fsVars, findVars>>
    /\ UNCHANGED exceptRen

\* Dry run of a changed file when diff cannot be run: the notice is printed,
\* subprocess.call raises OSError, which nothing catches; the scratch file
\* is removed on the way out.
RenameDryRunNoDiff ==
    /\ ren_pc = "loop" /\ fns # <<>>
    /\ RenFile # ren_fn
    /\ ~HasBlank(replace)
    /\ RenNewText # file_text[RenFile]
    /\ dryrun /\ ~diff_exists
    /\ reported' = Append(reported, RenFile)
    /\ ren_pc' = "OSError"
    /\ UNCHANGED <<ren_fn, ren_table, file_text, orig_files, dryrun, diff_exists, diff_args,
                   replace, fns, found, diff_calls>>
    /\ UNCHANGED <<fsVars, findVars>>
    /\ UNCHANGED exceptRen

\* Commit of a changed file: "open(fn, 'wt').write(text)".
RenameWrite ==
    /\ ren_pc = "loop" /\ fns # <<>>
    /\ RenFile # ren_fn
    /\ ~HasBlank(replace)
    /\ RenNewText # file_text[RenFile]
    /\ ~dryrun
    /\ file_text' = [file_text EXCEPT ![RenFile] = RenNewText]
    /\ fs_ignore' = IF RenFile = path_join(RootA, GIT_IGNORE)
                    THEN [fs_ignore EXCEPT ![RootA] = <<TRUE, lines_of(RenNewText)>>]
                    ELSE fs_ignore
    /\ fns' = Tail(fns)
    /\ UNCHANGED <<ren_fn, ren_table, orig_files, dryrun, diff_exists, diff_args,
                   replace, found, reported, diff_calls, ren_pc>>
    /\ UNCHANGED <<fs_kind, fs_files, findVars>>
    /\ UNCHANGED exceptRen

\* The file loop is over.
RenameEnd ==
    /\ ren_pc = "loop" /\ fns = <<>>
    /\ ren_pc' = "done"
    /\ UNCHANGED <<ren_fn, ren_table, file_text, orig_files, dryrun, diff_exists, diff_args,
                   replace, fns, found, reported, diff_calls>>
    /\ UNCHANGED <<fsVars, findVars>>
    /\ UNCHANGED exceptRen

NextRename ==
    \/ RenameBegin
    \/ RenameSkipTable
    \/ RenameUnpackError
    \/ RenameUnchanged
    \/ RenameDryRunDiff
    \/ RenameDryRunNoDiff
    \/ RenameWrite
    \/ RenameEnd

InitRename == RenameCall /\ FindIdle /\ IdleCamel /\ IdleConv /\ IdleApply

SpecRename == InitRename /\ [][NextRename]_vars

-----------------------------------------------------------------------------
(* Properties of rename *)

RenEnded == ren_pc \in {"done", "ValueError", "OSError"}

\* The entries of the table file that are not blank-line sentinels.
RECURSIVE NonBlank(_)
NonBlank(entries) ==
    IF entries = <<>> THEN <<>>
    ELSE IF Head(entries) = <<>> THEN NonBlank(Tail(entries))
    ELSE <<Head(entries)>> \o NonBlank(Tail(entries))

\* The text a file should have after the table is applied to it.
Substituted(text) == apply_replace(NonBlank(read_conv_file(ren_table)), text)

\* The discovered files other than the table file itself.
Candidates == Range(found) \ {ren_fn}

TableHasBlank == \E i \in 1..Len(ren_table) : strip(ren_table[i]) = <<>>

\* C1: after a dry run every file is as it was, and every candidate file that
\* the table changes has been reported as a would-be change.
C1_DryRunKeepsAndReports ==
    (dryrun /\ RenEnded) =>
        /\ file_text = orig_files
        /\ \A fn \in Candidates :
              Substituted(orig_files[fn]) # orig_files[fn] => fn \in Range(reported)

\* C2: with blank lines in the table file the run completes without error
\* and applies exactly the non-blank entries, in order, to every candidate.
C2_BlankLinesDropped ==
    (TableHasBlank /\ RenEnded) =>
        /\ ren_pc # "ValueError"
        /\ (ren_pc = "done" /\ ~dryrun) =>
              \A fn \in Candidates : file_text[fn] = Substituted(orig_files[fn])
        /\ (ren_pc = "done" /\ dryrun) =>
              \A fn \in Candidates :
                  Substituted(orig_files[fn]) # orig_files[fn] => fn \in Range(reported)

\* C6: in a dry run a diff that cannot be run or that exits nonzero does not
\* abort the batch: every candidate file is still processed and reported.
C6_DiffFailureDoesNotAbort ==
    (dryrun /\ ~TableHasBlank /\ RenEnded) =>
        /\ ren_pc = "done"
        /\ \A fn \in Candidates :
              Substituted(orig_files[fn]) # orig_files[fn] => fn \in Range(reported)

-----------------------------------------------------------------------------
(* The replacement pass of rename's loop body, run over its own result *)

ApplyAlphabet == {"a", "b"}
ApplyTokens == { <<"a">>, <<"b">>, <<"a", "a">>, <<"a", "b">> }
ApplyLines == {f \o <<" ">> \o g : f \in ApplyTokens, g \in ApplyTokens}

ApplyCall ==
    /\ ap_lines \in StringsUpTo(ApplyLines, MaxEntries)
    /\ ap_text \in StringsUpTo(ApplyAlphabet, MaxTextLen)
    /\ ap_replace = <<>>
    /\ ap_once = <<>>
    /\ ap_twice = <<>>
    /\ ap_pc = "read"

\* "replace = list(read_conv_file(ren_fn))"
ApplyRead ==
    /\ ap_pc = "read"
    /\ ap_replace' = read_conv_file(ap_lines)
    /\ ap_pc' = "first"
    /\ UNCHANGED <<ap_lines, ap_text, ap_once, ap_twice>>
    /\ UNCHANGED exceptApply

\* The loop body's replacement over the file's text.
ApplyFirst ==
    /\ ap_pc = "first"
    /\ ap_once' = apply_replace(ap_replace, ap_text)
    /\ ap_pc' = "second"
    /\ UNCHANGED <<ap_lines, ap_replace, ap_text, ap_twice>>
    /\ UNCHANGED exceptApply

\* The same replacement over the text the first pass left.
ApplySecond ==
    /\ ap_pc = "second"
    /\ ap_twice' = apply_replace(ap_replace, ap_once)
    /\ ap_pc' = "done"
    /\ UNCHANGED <<ap_lines, ap_replace, ap_text, ap_once>>
    /\ UNCHANGED exceptApply

NextApply == ApplyRead \/ ApplyFirst \/ ApplySecond

InitApply == ApplyCall /\ IdleCamel /\ IdleConv /\ IdleFs /\ IdleFind /\ IdleRen

SpecApply == InitApply /\ [][NextApply]_vars

-----------------------------------------------------------------------------
(* Properties of the replacement pass *)

\* x occurs in t as a substring.
Occurs(x, t) == \E i \in 1..(Len(t) - Len(x) + 1) : SubSeq(t, i, i + Len(x) - 1) = x

\* No entry's to matches a later entry's from.
NoToMatchesLaterFrom(entries) ==
    \A i, j \in 1..Len(entries) :
        i < j => ~Occurs(entries[j][1], entries[i][2]) /\ ~Occurs(entries[i][2], entries[j][1])

\* The entries whose from and to differ.
Changing(entries) == {e \in Range(entries) : e[1] # e[2]}

\* No character of any changing entry's to occurs in any changing entry's from.
ToFromDisjoint(entries) ==
    \A e, f \in Changing(entries) : Range(e[2]) \cap Range(f[1]) = {}

\* C9 as stated: for a table in which no entry's to matches a later entry's
\* from, a second pass over the result of the first changes nothing.
C9_IdempotentIfNoLaterMatch ==
    (ap_pc = "done" /\ NoToMatchesLaterFrom(ap_replace)) => ap_twice = ap_once

\* C9 as amended: for a table read from a file in which no character of any
\* entry's to occurs in any entry's from (entries with from = to aside), a
\* second pass over the result of the first changes nothing.
C9_IdempotentIfDisjoint ==
    (ap_pc = "done" /\ ToFromDisjoint(ap_replace)) => ap_twice = ap_once

\* A finished double pass of a disjoint table of two different changing
\* entries whose first pass changed the text.
C9_Witness ==
    /\ ap_pc = "done"
    /\ ToFromDisjoint(ap_replace)
    /\ Cardinality(Changing(ap_replace)) = 2
    /\ ap_once # ap_text
    /\ Len(ap_text) > Len(ap_once)

=============================================================================
